---- MODULE Spec2Model ----
(***************************************************************************)
(* Model of finance-tracker.js: the Transaction record class and the       *)
(* FinanceTracker ledger (transactions, nextId, budgets) with its add,     *)
(* delete, statistics, date-range, JSON export/import and budget methods.  *)
(*                                                                         *)
(* JavaScript values that the code inspects with typeof / isFinite / <= /  *)
(* || / + are modelled as tagged records [t, k, v]: t is the typeof tag,   *)
(* k distinguishes the special numbers (and carries a string's text), v is *)
(* the integer value of a finite number.  Amounts are integers, well below *)
(* 2^53, so Number addition is exact integer addition.                     *)
(***************************************************************************)
EXTENDS Integers, Sequences, FiniteSets, TLC

VARIABLES transactions, nextId, budgets, clock, result, issued, epoch, saved

vars == <<transactions, nextId, budgets, clock, result, issued, epoch, saved>>

(* ------------------------------ bounds --------------------------------- *)

\* Number of addTransaction calls a run may make (each one reads the clock).
MaxAdds == 3

\* Longest array in an import payload that is not one of the ledger's exports.
MaxPayloadLen == 2

\* Milliseconds between two readings of the wall clock.
TickMs == 1500

(* --------------------------- JavaScript values ------------------------- *)

Num(n) == [t |-> "number", k |-> "finite", v |-> n]

NaNValue == [t |-> "number", k |-> "NaN", v |-> 0]

PosInfinity == [t |-> "number", k |-> "Infinity", v |-> 0]

Str(s) == [t |-> "string", k |-> s, v |-> 0]

Undefined == [t |-> "undefined", k |-> "undefined", v |-> 0]

\* A built-in function object, e.g. Object.prototype.toString.
NativeFunction == [t |-> "function", k |-> "native", v |-> 0]

\* JSON null: what JSON.stringify writes for NaN and Infinity.
Null == [t |-> "object", k |-> "null", v |-> 0]

typeof(x) == x.t

\* isFinite(x) for x of type number (the code tests typeof first).
isFinite(x) == x.t = "number" /\ x.k = "finite"

\* x <= 0 for x of type number: every comparison with NaN is false.
LeqZero(x) == x.t = "number" /\ x.k = "finite" /\ x.v <= 0

\* ToBoolean(x)
Truthy(x) ==
  CASE x.t = "number" -> x.k = "Infinity" \/ (x.k = "finite" /\ x.v # 0)
    [] x.t = "string" -> x.k # ""
    [] x.t = "undefined" -> FALSE
    [] x.t = "object" -> x.k # "null"
    [] OTHER -> TRUE

\* a + b: numeric addition of two numbers, string concatenation as soon as
\* one operand is a string or an object/function (whose primitive is a string).
Plus(a, b) ==
  IF a.t = "number" /\ b.t = "number"
  THEN IF a.k = "finite" /\ b.k = "finite" THEN Num(a.v + b.v)
       ELSE IF a.k = "NaN" \/ b.k = "NaN" THEN NaNValue
       ELSE PosInfinity
  ELSE Str("concatenation")

(* ------------------------------- Date ---------------------------------- *)

\* A Date object holding the time value ms.
DateOf(ms) == [isDate |-> TRUE, valid |-> TRUE, ms |-> ms]

\* new Date("garbage"): a Date object whose time value is NaN.
InvalidDate == [isDate |-> TRUE, valid |-> FALSE, ms |-> 0]

\* A value that is not a Date object (e.g. the string "2024-01-01").
NotADate == [isDate |-> FALSE, valid |-> FALSE, ms |-> 0]

\* new Date(): the wall clock at its clock-th reading.
Now == DateOf(clock * TickMs + 250)

\* a >= b on Dates (valueOf comparison); false when either time value is NaN.
DateGeq(a, b) == a.valid /\ b.valid /\ a.ms >= b.ms

DateLeq(a, b) == a.valid /\ b.valid /\ a.ms <= b.ms

(* ---------------------------- Transaction ------------------------------ *)

ValidTypes == {"income", "expense"}

\* The two throw statements of the constructor.
TransactionThrows(type, amount) ==
  \/ type \notin ValidTypes
  \/ typeof(amount) # "number" \/ LeqZero(amount) \/ ~isFinite(amount)

\* The object a constructor call that does not throw builds; an argument
\* that is not a Date, or an invalid Date, is replaced by new Date().
Transaction(id, type, amount, category, description, date, now) ==
  [id |-> id, type |-> type, amount |-> amount, category |-> category,
   description |-> description,
   date |-> IF ~date.isDate \/ ~date.valid THEN now ELSE date]

(* ------------------------- FinanceTracker state ------------------------ *)

\* {} : an object with no own properties.
EmptyObject == [key \in {} |-> Undefined]

NoText == [syntax |-> "none", items |-> <<>>]

NoResult == [op |-> "new", threw |-> FALSE, error |-> "", args |-> <<>>, ret |-> <<>>]

Return(op, args, ret) ==
  [op |-> op, threw |-> FALSE, error |-> "", args |-> args, ret |-> ret]

Throw(op, args, error) ==
  [op |-> op, threw |-> TRUE, error |-> error, args |-> args, ret |-> <<>>]

\* new FinanceTracker(); result, issued, epoch and saved record what the
\* caller has observed: the last call's outcome, the ids addTransaction has
\* returned, how many of them preceded the last successful import, and the
\* last text exportToJSON returned.
Init ==
  /\ transactions = <<>>
  /\ nextId = 1
  /\ budgets = EmptyObject
  /\ clock = 0
  /\ result = NoResult
  /\ issued = <<>>
  /\ epoch = 0
  /\ saved = NoText

\* A counter that is read but never advanced.
NoIncrement(n) == n

\* this.nextId++ : the value the counter holds afterwards.
PostIncrement(n) == n + 1

addTransaction(type, amount, category, description) ==
  /\ clock < MaxAdds
  /\ clock' = clock + 1
  /\ nextId' = PostIncrement(nextId)
  /\ IF TransactionThrows(type, amount)
     THEN /\ transactions' = transactions
          /\ issued' = issued
          /\ result' = Throw("addTransaction", <<>>, "Transaction")
     ELSE /\ transactions' = Append(transactions,
               Transaction(nextId, type, amount, category, description, Now, Now))
          /\ issued' = Append(issued, nextId)
          /\ result' = Return("addTransaction", <<>>, nextId)
  /\ UNCHANGED <<budgets, epoch, saved>>

\* findIndex: the first index whose record has the id, 0 when there is none.
findIndex(txns, id) ==
  IF \E i \in 1..Len(txns) : txns[i].id = id
  THEN CHOOSE i \in 1..Len(txns) :
         /\ txns[i].id = id
         /\ \A j \in 1..(i - 1) : txns[j].id # id
  ELSE 0

\* splice(idx, 1)
splice(txns, idx) ==
  [i \in 1..(Len(txns) - 1) |-> IF i < idx THEN txns[i] ELSE txns[i + 1]]

deleteTransaction(id) ==
  /\ LET idx == findIndex(transactions, id) IN
       IF idx = 0
       THEN /\ transactions' = transactions
            /\ result' = Return("deleteTransaction", <<id>>, FALSE)
       ELSE /\ transactions' = splice(transactions, idx)
            /\ result' = Return("deleteTransaction", <<id>>, TRUE)
  /\ UNCHANGED <<nextId, budgets, clock, issued, epoch, saved>>

(* ----------------------------- statistics ------------------------------ *)

\* filter(t => t.type === type)
getTransactionsByType(txns, type) == SelectSeq(txns, LAMBDA t : t.type = type)

\* reduce((sum, t) => sum + t.amount, 0)
RECURSIVE SumAmounts(_)
SumAmounts(txns) ==
  IF txns = <<>> THEN Num(0)
  ELSE Plus(SumAmounts(SubSeq(txns, 1, Len(txns) - 1)), txns[Len(txns)].amount)

getTotalIncome(txns) == SumAmounts(getTransactionsByType(txns, "income"))

getTotalExpense(txns) == SumAmounts(getTransactionsByType(txns, "expense"))

\* Property names every object literal inherits from Object.prototype.
ObjectPrototypeNames ==
  {"constructor", "toString", "valueOf", "hasOwnProperty", "isPrototypeOf",
   "propertyIsEnumerable", "toLocaleString"}

\* acc[key]: the own property, else the one inherited from Object.prototype,
\* else undefined.
GetProperty(acc, key) ==
  IF key \in DOMAIN acc THEN acc[key]
  ELSE IF key \in ObjectPrototypeNames THEN NativeFunction
  ELSE Undefined

\* acc[key] = value
SetProperty(acc, key, value) ==
  [c \in DOMAIN acc \cup {key} |-> IF c = key THEN value ELSE acc[c]]

\* x || 0
OrZero(x) == IF Truthy(x) THEN x ELSE Num(0)

\* acc[t.category] = (acc[t.category] || 0) + t.amount
Accumulate(acc, t) ==
  SetProperty(acc, t.category, Plus(OrZero(GetProperty(acc, t.category)), t.amount))

RECURSIVE ReduceByCategory(_)
ReduceByCategory(txns) ==
  IF txns = <<>> THEN EmptyObject
  ELSE Accumulate(ReduceByCategory(SubSeq(txns, 1, Len(txns) - 1)), txns[Len(txns)])

getExpenseByCategory(txns) ==
  ReduceByCategory(getTransactionsByType(txns, "expense"))

\* Object.values(obj).reduce((a, b) => a + b, 0)
RECURSIVE SumValues(_)
SumValues(obj) ==
  IF DOMAIN obj = {} THEN Num(0)
  ELSE LET c == CHOOSE c \in DOMAIN obj : TRUE
           rest == [d \in DOMAIN obj \ {c} |-> obj[d]]
       IN Plus(SumValues(rest), obj[c])

(* ----------------------------- date range ------------------------------ *)

getTransactionsByDateRange(startDate, endDate) ==
  /\ IF ~startDate.isDate \/ ~endDate.isDate
     THEN result' = Throw("getTransactionsByDateRange", <<startDate, endDate>>,
                          "getTransactionsByDateRange")
     ELSE result' = Return("getTransactionsByDateRange", <<startDate, endDate>>,
                           SelectSeq(transactions,
                                     LAMBDA t : DateGeq(t.date, startDate)
                                                /\ DateLeq(t.date, endDate)))
  /\ UNCHANGED <<transactions, nextId, budgets, clock, issued, epoch, saved>>

(* ------------------------------ budgets -------------------------------- *)

setBudget(category, amount) ==
  /\ IF typeof(amount) # "number" \/ LeqZero(amount)
     THEN /\ budgets' = budgets
          /\ result' = Throw("setBudget", <<category, amount>>, "setBudget")
     ELSE /\ budgets' = SetProperty(budgets, category, amount)
          /\ result' = Return("setBudget", <<category, amount>>, <<>>)
  /\ UNCHANGED <<transactions, nextId, clock, issued, epoch, saved>>

(* --------------------------- JSON export/import ------------------------ *)

\* JSON.stringify of a number: NaN and the infinities are written as null.
JSONNumber(x) == IF isFinite(x) THEN x ELSE Null

\* A serialisation that keeps whole seconds only.
toISOStringSeconds(d) ==
  IF d.valid THEN [t |-> "iso", sec |-> d.ms \div 1000, milli |-> 0]
  ELSE [t |-> "null", sec |-> 0, milli |-> 0]

\* Date.prototype.toJSON: the ISO-8601 text, seconds and milliseconds fields.
toISOString(d) ==
  IF d.valid THEN [t |-> "iso", sec |-> d.ms \div 1000, milli |-> d.ms % 1000]
  ELSE [t |-> "null", sec |-> 0, milli |-> 0]

\* new Date(obj.date) for what a JSON payload can hold in the date field.
NewDate(x) ==
  CASE x.t = "iso" -> DateOf(x.sec * 1000 + x.milli)
    [] x.t = "null" -> DateOf(0)
    [] OTHER -> InvalidDate

\* The JSON object written for one Transaction: its own enumerable fields.
JSONEntry(txn) ==
  [id |-> txn.id, type |-> txn.type, amount |-> JSONNumber(txn.amount),
   category |-> txn.category, description |-> txn.description,
   date |-> toISOString(txn.date)]

\* JSON.stringify(this.transactions, null, 2); a text is modelled by what
\* JSON.parse makes of it: a syntax error, a non-array value, or an array.
exportToJSON(txns) ==
  [syntax |-> "array", items |-> [i \in 1..Len(txns) |-> JSONEntry(txns[i])]]

\* Math.max(...ids) for a non-empty set of integer ids.
MathMax(ids) == CHOOSE m \in ids : \A n \in ids : n <= m

\* Whether the try block throws: JSON.parse, the Array.isArray test, or the
\* constructor on some element of the array.
ImportThrows(jsonString) ==
  \/ jsonString.syntax # "array"
  \/ \E i \in 1..Len(jsonString.items) :
       TransactionThrows(jsonString.items[i].type, jsonString.items[i].amount)

\* arr.map(obj => new Transaction(...)) when no constructor call throws.
MapEntries(items, now) ==
  [i \in 1..Len(items) |->
     Transaction(items[i].id, items[i].type, items[i].amount, items[i].category,
                 items[i].description, NewDate(items[i].date), now)]

\* nextId rebuilt from the records.
RebuiltNextId(txns) ==
  IF Len(txns) # 0 THEN MathMax({txns[i].id : i \in 1..Len(txns)}) + 1 ELSE 1

\* An import that pushes each rebuilt record as it goes, so that the records
\* before the first invalid entry replace the ledger's when it throws.
ImportedPrefix(self, jsonString, now) ==
  IF ImportThrows(jsonString)
  THEN IF jsonString.syntax = "array"
       THEN LET items == jsonString.items
                bad == CHOOSE i \in 1..Len(items) :
                         /\ TransactionThrows(items[i].type, items[i].amount)
                         /\ \A j \in 1..(i - 1) :
                              ~TransactionThrows(items[j].type, items[j].amount)
            IN [threw |-> TRUE,
                transactions |-> MapEntries(SubSeq(items, 1, bad - 1), now),
                nextId |-> self.nextId]
       ELSE [threw |-> TRUE, transactions |-> self.transactions, nextId |-> self.nextId]
  ELSE LET txns == MapEntries(jsonString.items, now) IN
       [threw |-> FALSE, transactions |-> txns, nextId |-> RebuiltNextId(txns)]

\* The ledger after importFromJSON(jsonString) on the ledger self: the array
\* built by map is assigned only when map returns.
ImportedState(self, jsonString, now) ==
  IF ImportThrows(jsonString)
  THEN [threw |-> TRUE, transactions |-> self.transactions, nextId |-> self.nextId]
  ELSE LET txns == MapEntries(jsonString.items, now) IN
       [threw |-> FALSE, transactions |-> txns, nextId |-> RebuiltNextId(txns)]

importFromJSON(jsonString) ==
  /\ LET after == ImportedState([transactions |-> transactions, nextId |-> nextId],
                                jsonString, Now) IN
       /\ transactions' = after.transactions
       /\ nextId' = after.nextId
       /\ IF after.threw
          THEN /\ result' = Throw("importFromJSON", <<jsonString>>, "importFromJSON")
               /\ epoch' = epoch
          ELSE /\ result' = Return("importFromJSON", <<jsonString>>, <<>>)
               /\ epoch' = Len(issued)
  /\ UNCHANGED <<budgets, clock, issued, saved>>

\* new FinanceTracker()
FreshTracker == [transactions |-> <<>>, nextId |-> 1]

(* ------------------------------- inputs -------------------------------- *)

TypeInputs == {"income", "expense", "transfer"}

AmountInputs == {Num(100), Num(300), Num(0), Num(-5), NaNValue, PosInfinity, Str("100")}

CategoryInputs == {"Food", "Transport", "constructor"}

BudgetInputs == {Num(500), Num(0), Num(-5), NaNValue, PosInfinity, Str("500")}

DateInputs == {DateOf(0), DateOf(TickMs + 250), InvalidDate, NotADate}

\* JSON entries of payloads that are not exports of the ledger.
Entry(id, type, amount, date) ==
  [id |-> id, type |-> type, amount |-> amount, category |-> "Food",
   description |-> "memo", date |-> date]

ForeignEntries ==
  { Entry(1, "income", Num(100), [t |-> "iso", sec |-> 1, milli |-> 750]),
    Entry(0, "expense", Num(300), [t |-> "junk", sec |-> 0, milli |-> 0]),
    Entry(2, "transfer", Num(100), [t |-> "iso", sec |-> 0, milli |-> 0]),
    Entry(2, "expense", Num(-5), [t |-> "iso", sec |-> 0, milli |-> 0]) }

GarbageText == [syntax |-> "error", items |-> <<>>]

ObjectText == [syntax |-> "object", items |-> <<>>]

ForeignTexts ==
  {GarbageText, ObjectText}
  \cup { [syntax |-> "array", items |-> s] :
           s \in UNION { [1..n -> ForeignEntries] : n \in 0..MaxPayloadLen } }

(* ------------------------------- actions ------------------------------- *)

Add ==
  \E type \in TypeInputs, amount \in AmountInputs, category \in CategoryInputs :
    addTransaction(type, amount, category, "memo")

\* The same call with one valid and one invalid argument list.
AddPlain ==
  \E type \in {"income", "transfer"} : addTransaction(type, Num(100), "Food", "memo")

\* The same call with a valid argument list.
AddValid == addTransaction("income", Num(100), "Food", "memo")

Delete == \E id \in 0..MaxAdds : deleteTransaction(id)

Export ==
  /\ saved' = exportToJSON(transactions)
  /\ result' = Return("exportToJSON", <<>>, exportToJSON(transactions))
  /\ UNCHANGED <<transactions, nextId, budgets, clock, issued, epoch>>

ImportSaved == saved # NoText /\ importFromJSON(saved)

ImportForeign == \E text \in ForeignTexts : importFromJSON(text)

SetBudget ==
  \E category \in {"Food", "Transport"}, amount \in BudgetInputs :
    setBudget(category, amount)

\* The same call with one valid and one invalid amount.
SetBudgetPlain == \E amount \in {Num(500), Num(0)} : setBudget("Food", amount)

ByDateRange ==
  \E startDate \in DateInputs, endDate \in DateInputs :
    getTransactionsByDateRange(startDate, endDate)

\* const copy = new FinanceTracker(); copy.importFromJSON(this.exportToJSON());
\* the copy is what the call returns to the observer.
RoundTrip ==
  /\ result' = Return("roundTrip", <<>>,
                      ImportedState(FreshTracker, exportToJSON(transactions), Now))
  /\ UNCHANGED <<transactions, nextId, budgets, clock, issued, epoch, saved>>

Next ==
  \/ AddPlain
  \/ Delete
  \/ ImportForeign
  \/ SetBudgetPlain

Spec == Init /\ [][Next]_vars

NextImport ==
  \/ ImportForeign
  \/ SetBudgetPlain
  \/ Delete

SpecImport == Init /\ [][NextImport]_vars

NextQueries ==
  \/ AddPlain
  \/ Delete
  \/ SetBudget
  \/ ByDateRange

SpecQueries == Init /\ [][NextQueries]_vars

NextCrud ==
  \/ Add
  \/ Delete
  \/ RoundTrip

SpecCrud == Init /\ [][NextCrud]_vars

NextOwnExport ==
  \/ AddValid
  \/ Delete
  \/ Export
  \/ ImportSaved

SpecOwnExport == Init /\ [][NextOwnExport]_vars

(* ------------------------------- claims -------------------------------- *)

Ids(txns) == {txns[i].id : i \in 1..Len(txns)}

FinitePositive(x) == x.t = "number" /\ x.k = "finite" /\ x.v > 0

\* C1: an addTransaction call that fails validation leaves nextId and the
\* records as they were, so the ids of the records added successfully are
\* 1, 2, 3, ... whatever failed calls lie between them.
C1_FailedAddChangesNothing ==
  [][ /\ (result'.op = "addTransaction" /\ result'.threw)
           => (nextId' = nextId /\ transactions' = transactions)
      /\ \A i \in 1..Len(issued') : issued'[i] = i ]_vars

\* C2: on a ledger that starts empty, the first successful addTransaction
\* returns id 1 and every later one an id greater than all returned before,
\* whatever was deleted in between.
C2_IdsStartAtOneAndIncrease ==
  /\ issued # <<>> => issued[1] = 1
  /\ \A i, j \in 1..Len(issued) : i < j => issued[i] < issued[j]

\* C3: across addTransaction, deleteTransaction and imports of the ledger's
\* own earlier exports, no id is assigned twice and nextId never decreases.
C3_IdNeverReused ==
  [][ /\ nextId' >= nextId
      /\ \A i, j \in 1..Len(issued') : i < j => issued'[i] # issued'[j] ]_vars

\* C3 as amended: nextId decreases only in a successful import, which sets it
\* to one more than the greatest imported id (1 for an empty import), and the
\* ids assigned since the last successful import are strictly increasing.
C3_NoReuseBetweenImports ==
  [][ /\ nextId' < nextId =>
           /\ result'.op = "importFromJSON" /\ ~result'.threw
           /\ IF transactions' = <<>> THEN nextId' = 1
              ELSE /\ nextId' - 1 \in Ids(transactions')
                   /\ \A n \in Ids(transactions') : n < nextId'
      /\ \A i, j \in (epoch' + 1)..Len(issued') : i < j => issued'[i] < issued'[j] ]_vars

\* An id returned before an import of the ledger's own export is returned
\* again after it.
C3_Witness ==
  \E i \in 1..epoch : \E j \in (epoch + 1)..Len(issued) : issued[i] = issued[j]

\* What the claim calls a payload that must be refused.
BadPayload(text) ==
  \/ text.syntax # "array"
  \/ \E i \in 1..Len(text.items) :
       \/ text.items[i].type \notin {"income", "expense"}
       \/ ~FinitePositive(text.items[i].amount)

\* C4: an import of an unparseable text, of a text that is no array, or of an
\* array with an invalid kind or amount at any position throws the import
\* error and leaves records, nextId and budgets as they were.
C4_ImportAllOrNothing ==
  [][ (result'.op = "importFromJSON"
        /\ (result'.threw \/ BadPayload(result'.args[1])))
      => /\ result'.threw
         /\ result'.error = "importFromJSON"
         /\ transactions' = transactions
         /\ nextId' = nextId
         /\ budgets' = budgets ]_vars

\* A failed import of an array whose first entry is valid and whose second is
\* not, on a ledger that holds records and a budget.
C4_Witness ==
  /\ result.op = "importFromJSON"
  /\ result.threw
  /\ result.args[1].syntax = "array"
  /\ Len(result.args[1].items) >= 2
  /\ ~BadPayload([syntax |-> "array", items |-> SubSeq(result.args[1].items, 1, 1)])
  /\ transactions # <<>>
  /\ DOMAIN budgets # {}

\* C5: importing the export of a ledger built by addTransaction and
\* deleteTransaction into a fresh ledger succeeds, rebuilds the same records
\* in the same order, and sets nextId to the greatest id plus one (1 when
\* there is no record).
C5_RoundTrip ==
  result.op = "roundTrip" =>
    /\ ~result.ret.threw
    /\ result.ret.transactions = transactions
    /\ IF transactions = <<>> THEN result.ret.nextId = 1
       ELSE /\ result.ret.nextId - 1 \in Ids(transactions)
            /\ \A n \in Ids(transactions) : n < result.ret.nextId

\* A round trip of a ledger with two records left after a delete.
C5_Witness ==
  /\ result.op = "roundTrip"
  /\ Len(transactions) >= 2
  /\ transactions[1].id # 1
  /\ transactions[1].date.ms % 1000 # 0

\* C6: a deleteTransaction(id) that returned true is followed by one that
\* returns false and changes nothing; deleting an id no record holds returns
\* false, throws nothing and changes nothing.
C6_DeleteIdempotent ==
  [][ /\ (/\ result.op = "deleteTransaction" /\ result.ret = TRUE
          /\ result'.op = "deleteTransaction" /\ result'.args = result.args)
        => (result'.ret = FALSE /\ transactions' = transactions)
      /\ (result'.op = "deleteTransaction" /\ result'.args[1] \notin Ids(transactions))
        => /\ ~result'.threw /\ result'.ret = FALSE
           /\ transactions' = transactions /\ nextId' = nextId /\ budgets' = budgets ]_vars

ValidTimestamp(d) == d.isDate /\ d.valid

\* C7: getTransactionsByDateRange throws whenever start or end is not a valid
\* timestamp: a Date holding no valid time, or a value that is no Date.
C7_InvalidRangeRejected ==
  (/\ result.op = "getTransactionsByDateRange"
   /\ (~ValidTimestamp(result.args[1]) \/ ~ValidTimestamp(result.args[2])))
  => result.threw

\* C8: setBudget throws and leaves budgets unchanged unless amount is a finite
\* number above zero, so every configured budget is finite and positive; for
\* a valid amount it sets that category's budget and no other.
C8_BudgetsFinitePositive ==
  [][ /\ result'.op = "setBudget" =>
           IF FinitePositive(result'.args[2])
           THEN /\ ~result'.threw
                /\ budgets' = SetProperty(budgets, result'.args[1], result'.args[2])
           ELSE result'.threw /\ budgets' = budgets
      /\ \A c \in DOMAIN budgets' : FinitePositive(budgets'[c]) ]_vars

ExpensesOf(txns, category) ==
  SelectSeq(txns, LAMBDA t : t.type = "expense" /\ t.category = category)

\* C9: the values of getExpenseByCategory add up to getTotalExpense, its keys
\* are the categories of the expense records, and each value is the sum of
\* the expense amounts of its category.
C9_CategorySumsMatchTotal ==
  LET byCategory == getExpenseByCategory(transactions) IN
    /\ SumValues(byCategory) = getTotalExpense(transactions)
    /\ DOMAIN byCategory =
         {transactions[i].category :
            i \in {j \in 1..Len(transactions) : transactions[j].type = "expense"}}
    /\ \A c \in DOMAIN byCategory :
         byCategory[c] = SumAmounts(ExpensesOf(transactions, c))

\* C10: in every state reached by addTransaction, deleteTransaction and
\* successful imports of any accepted payload, the ids of the records are
\* positive, pairwise distinct and below nextId.
C10_IdsPositiveDistinctBelowNextId ==
  /\ \A i \in 1..Len(transactions) :
       transactions[i].id > 0 /\ transactions[i].id < nextId
  /\ \A i, j \in 1..Len(transactions) :
       i # j => transactions[i].id # transactions[j].id

====
